---- MODULE Spec2Model ----
(***************************************************************************)
(* Model of the counter test harness sim_main.cpp: the clock sequencer     *)
(* (tick, reset), the scenario dispatcher (main) and the two external      *)
(* collaborators it drives, the DUT (Vcounter) and the trace recorder      *)
(* (VerilatedVcdC).                                                        *)
(*                                                                         *)
(* The harness is straight-line code.  Every function is modelled as the   *)
(* sequence of primitive statements it executes (assignment to a DUT       *)
(* input, top->eval(), tfp->dump(main_time++), ...), with markers for the  *)
(* entry and the return of tick, reset and main.  The state machine        *)
(* executes one primitive statement per step.                              *)
(***************************************************************************)
EXTENDS Integers, Sequences, FiniteSets, TLC

VARIABLES
    entry,       \* the function being run and its argument
    pc,          \* index in Program of the next statement
    test,        \* std::string test (line 28)
    clk, rst, en,\* DUT inputs top->clk, top->rst, top->en
    count,       \* DUT output register
    prevClk,     \* value of clk at the DUT's previous evaluation
    main_time,   \* static vluint64_t main_time (line 8)
    tfp,         \* recorder: "null" (no recorder), or its trace file: "new",
                 \* "open", "failed" (not opened), "closed"
    nDump,       \* number of dump calls so far
    snap,        \* the latest dump call: time passed and signals sampled
    prevSnap,    \* the dump call before it
    log,         \* statements executed since the latest call made by main
    stack,       \* active calls, innermost last
    nEval, nTick, nReset, nDiag, nClose, nFinal, \* history counters
    nRise,       \* evaluations that saw clk rise (0 at the previous one, 1 now)
    nRstEdge,    \* assignments that changed the value of rst
    exitStatus   \* value returned by main, NoStatus before it returns

vars == << entry, pc, test, clk, rst, en, count, prevClk, main_time, tfp,
           nDump, snap, prevSnap, log, stack, nEval, nTick, nReset, nDiag,
           nClose, nFinal, nRise, nRstEdge, exitStatus >>

-----------------------------------------------------------------------------
(* Bounds and constants *)

\* largest `cycles` argument tried when reset is exercised on its own
MaxCycles == 3

\* width of the DUT's count register (0xFE, 0xFF, 0x00: an 8-bit counter)
CounterWidth == 8

CountModulus == 2 ^ CounterWidth

NoStatus == -1

\* the six names main compares `test` against
BuiltIn == { "basic_counting", "hold_when_disabled", "reset_behavior",
             "rst_over_en_priority", "wraparound", "mid_stream_reset" }

\* scenario names that match none of the six
UnknownNames == { "Basic_Counting", "wraparound ", "" }

\* argv[1..]: no argument at all, or a scenario name
Argvs == { << >> } \cup { << n >> : n \in BuiltIn \cup UnknownNames }

\* values the count register can hold before the first reset
PowerOnCounts == { 0, 255 }

-----------------------------------------------------------------------------
(* Statements *)

Stmt(op, sig, val) == [ op |-> op, sig |-> sig, val |-> val ]

Set(sig, val) == Stmt("set", sig, val)     \* top-><sig> = val
Eval          == Stmt("eval", "", 0)       \* top->eval()
Dump          == Stmt("dump", "", 0)       \* if (tfp) tfp->dump(main_time++)
DumpAlways    == Stmt("dump", "", 1)       \* tfp->dump(main_time++)
Call(fn, arg) == Stmt("call", fn, arg)     \* function entry
Ret(fn)       == Stmt("ret", fn, 0)        \* function return
Open          == Stmt("open", "", 0)       \* tfp->open(vcd_path)
Diag          == Stmt("diag", "", 0)       \* std::cerr << "Unknown test: "
Close         == Stmt("close", "", 0)      \* tfp->close()
Final         == Stmt("final", "", 0)      \* top->final()
Exit(status)  == Stmt("exit", "", status)  \* return status

\* for (int i = 0; i < n; ++i) body : the statements of body, n times over
Repeat(body, n) ==
    [ k \in 1 .. n * Len(body) |-> body[((k - 1) % Len(body)) + 1] ]

-----------------------------------------------------------------------------
(* The clock sequencer *)

\* tick with the two phases in the wrong order
tick_high_first ==
    << Call("tick", 0),
       Set("clk", 1), Eval, Dump,
       Set("clk", 0), Eval, Dump,
       Ret("tick") >>

\* tick that dumps the low phase before evaluating it
tick_dump_first ==
    << Call("tick", 0),
       Set("clk", 0), Dump, Eval,
       Set("clk", 1), Eval, Dump,
       Ret("tick") >>

\* tick that does not evaluate the low phase
tick_no_low_eval ==
    << Call("tick", 0),
       Set("clk", 0),
       Set("clk", 1), Eval, Dump,
       Ret("tick") >>

\* tick that records only the high phase
tick_one_dump ==
    << Call("tick", 0),
       Set("clk", 0), Eval,
       Set("clk", 1), Eval, Dump,
       Ret("tick") >>

\* static void tick(Vcounter* top, VerilatedVcdC* tfp); each Dump is the
\* guarded statement `if (tfp) tfp->dump(main_time++)`
tick ==
    << Call("tick", 0),
       Set("clk", 0), Eval, Dump,
       Set("clk", 1), Eval, Dump,
       Ret("tick") >>

\* reset that deasserts rst before the clock periods instead of after them
reset_early_deassert(cycles) ==
    << Call("reset", cycles), Set("rst", 1), Eval, Dump,
       Set("rst", 0), Eval, Dump >>
    \o Repeat(tick, cycles)
    \o << Ret("reset") >>

\* reset whose loop runs once too often (i <= cycles)
reset_extra_tick(cycles) ==
    << Call("reset", cycles), Set("rst", 1), Eval, Dump >>
    \o Repeat(tick, cycles + 1)
    \o << Set("rst", 0), Eval, Dump, Ret("reset") >>

\* static void reset(Vcounter* top, VerilatedVcdC* tfp, int cycles)
reset(cycles) ==
    << Call("reset", cycles), Set("rst", 1), Eval, Dump >>
    \o Repeat(tick, cycles)
    \o << Set("rst", 0), Eval, Dump, Ret("reset") >>

-----------------------------------------------------------------------------
(* The scenario scripts *)

\* basic_counting that enables the counter one tick late
basic_counting_late_en ==
    reset(1)
    \o tick \o << Set("en", 1) >> \o Repeat(tick, 19)
    \o << Set("en", 0) >> \o Repeat(tick, 5)

basic_counting ==
    reset(1)
    \o << Set("en", 1) >>
    \o Repeat(tick, 20)
    \o << Set("en", 0) >> \o Repeat(tick, 5)

\* hold_when_disabled that never drops en
hold_when_disabled_no_hold ==
    reset(1)
    \o << Set("en", 1) >> \o Repeat(tick, 5)
    \o Repeat(tick, 10)
    \o << Set("en", 1) >> \o Repeat(tick, 5)

hold_when_disabled ==
    reset(1)
    \o << Set("en", 1) >> \o Repeat(tick, 5)
    \o << Set("en", 0) >> \o Repeat(tick, 10)
    \o << Set("en", 1) >> \o Repeat(tick, 5)

reset_behavior ==
    << Set("en", 1) >> \o reset(2)
    \o Repeat(tick, 5)
    \o << Set("en", 0) >> \o reset(1)
    \o Repeat(tick, 5)

\* rst_over_en_priority that asserts rst one tick late
rst_over_en_priority_rst_late ==
    reset(1)
    \o << Set("en", 1) >> \o Repeat(tick, 5)
    \o tick \o << Set("rst", 1) >> \o Repeat(tick, 3)
    \o << Set("rst", 0) >> \o Repeat(tick, 6)

rst_over_en_priority ==
    reset(1)
    \o << Set("en", 1) >> \o Repeat(tick, 5)
    \o << Set("rst", 1) >> \o Repeat(tick, 4)
    \o << Set("rst", 0) >> \o Repeat(tick, 6)

\* wraparound that disables the counter before the four ticks of the wrap
wraparound_early_disable ==
    reset(1)
    \o << Set("en", 1) >>
    \o Repeat(tick, 254)
    \o << Set("en", 0) >> \o Repeat(tick, 4)
    \o Repeat(tick, 4)

wraparound ==
    reset(1)
    \o << Set("en", 1) >>
    \o Repeat(tick, 254)
    \o Repeat(tick, 4)
    \o << Set("en", 0) >> \o Repeat(tick, 4)

\* mid_stream_reset that evaluates and dumps after each assignment to rst
mid_stream_reset_recorded ==
    reset(1)
    \o << Set("en", 1) >> \o Repeat(tick, 8)
    \o << Set("rst", 1), Eval, Dump >> \o tick
    \o << Set("rst", 0), Eval, Dump >> \o Repeat(tick, 8)

\* mid_stream_reset that never deasserts rst
mid_stream_reset_no_deassert ==
    reset(1)
    \o << Set("en", 1) >> \o Repeat(tick, 8)
    \o << Set("rst", 1) >> \o tick
    \o Repeat(tick, 8)

mid_stream_reset ==
    reset(1)
    \o << Set("en", 1) >> \o Repeat(tick, 8)
    \o << Set("rst", 1) >> \o tick
    \o << Set("rst", 0) >> \o Repeat(tick, 8)

\* comparison that ignores the case of the first letter
Matches_ignore_case(t, name) ==
    \/ t = name
    \/ t = "Basic_Counting" /\ name = "basic_counting"

\* test == "<name>": exact comparison of std::string with a literal
Matches(t, name) == t = name

\* chain written with `if` in place of `else if`: the bodies are tried one
\* after the other and the final else belongs to the last comparison only
Body_no_else(t) ==
    (IF Matches(t, "basic_counting") THEN basic_counting ELSE << >>)
    \o (IF Matches(t, "hold_when_disabled") THEN hold_when_disabled ELSE << >>)
    \o (IF Matches(t, "reset_behavior") THEN reset_behavior ELSE << >>)
    \o (IF Matches(t, "rst_over_en_priority")
        THEN rst_over_en_priority ELSE << >>)
    \o (IF Matches(t, "wraparound") THEN wraparound ELSE << >>)
    \o (IF Matches(t, "mid_stream_reset") THEN mid_stream_reset ELSE << Diag >>)

\* the if / else-if chain of main
Body(t) ==
    IF Matches(t, "basic_counting") THEN basic_counting
    ELSE IF Matches(t, "hold_when_disabled") THEN hold_when_disabled
    ELSE IF Matches(t, "reset_behavior") THEN reset_behavior
    ELSE IF Matches(t, "rst_over_en_priority") THEN rst_over_en_priority
    ELSE IF Matches(t, "wraparound") THEN wraparound
    ELSE IF Matches(t, "mid_stream_reset") THEN mid_stream_reset
    ELSE << Diag >>

\* baseline that is dumped without having been evaluated
InitStmts_no_eval ==
    << Set("clk", 0), Set("rst", 0), Set("en", 0), DumpAlways >>

\* the baseline: clk = 0, rst = 0, en = 0, eval, dump
InitStmts ==
    << Set("clk", 0), Set("rst", 0), Set("en", 0), Eval, DumpAlways >>

\* teardown that finalizes the DUT before closing the recorder
Teardown_final_first == << Final, Close, Exit(0) >>

\* tfp->close(); delete tfp; top->final(); delete top; return 0
Teardown == << Close, Final, Exit(0) >>

\* int main(int argc, char** argv), after `test` has been read from argv
main(t) ==
    << Call("main", 0), Open >> \o InitStmts \o Body(t) \o Teardown

\* argc > 1 ? argv[1] : "basic_counting"
TestOf(argv) == IF Len(argv) > 0 THEN argv[1] ELSE "basic_counting"

-----------------------------------------------------------------------------
(* The DUT: a synchronous-reset, enabled, free-running counter.  Its state  *)
(* changes only when an evaluation sees clk at 1 after having seen it at 0. *)

\* the evaluation sees a rising edge of clk
RisingEdge(pclk, k) == k = 1 /\ pclk = 0

NextCount(c, pclk, k, r, e) ==
    IF RisingEdge(pclk, k)
    THEN IF r = 1 THEN 0
         ELSE IF e = 1 THEN (c + 1) % CountModulus
         ELSE c
    ELSE c

-----------------------------------------------------------------------------
(* The state machine *)

\* main_time++ that does not advance
PostIncrement_stuck(t) == t

\* main_time++ : the value of main_time after the dump
PostIncrement(t) == t + 1

\* the statements main runs for each scenario name, and reset for each argument
MainProgram == [ t \in BuiltIn \cup UnknownNames |-> main(t) ]
ResetProgram == [ c \in 0 .. MaxCycles |-> reset(c) ]

Program ==
    IF entry.fn = "main" THEN MainProgram[test]
    ELSE IF entry.fn = "tick" THEN tick
    ELSE ResetProgram[entry.arg]

Running == pc <= Len(Program)
Cur == Program[pc]
Entry(c) == [ op |-> Cur.op, sig |-> Cur.sig, val |-> Cur.val, cnt |-> c ]
Executed(c) == Append(log, Entry(c))
CurFn == IF stack = << >> THEN "" ELSE stack[Len(stack)].fn

\* what snap and prevSnap hold before there is such a dump
NoSnap == [ time |-> -1, clk |-> 0, rst |-> 0, en |-> 0, count |-> 0,
            fn |-> "", tickNo |-> 0 ]

\* state right after `new Vcounter`, before fn runs with recorder rec
Start(fn, arg, t, rec) ==
    /\ entry = [ fn |-> fn, arg |-> arg ]
    /\ pc = 1
    /\ test = t
    /\ main_time = 0
    /\ tfp = rec
    /\ nDump = 0
    /\ snap = NoSnap /\ prevSnap = NoSnap
    /\ log = << >>
    /\ stack = << >>
    /\ nEval = 0 /\ nTick = 0 /\ nReset = 0
    /\ nDiag = 0 /\ nClose = 0 /\ nFinal = 0
    /\ nRise = 0 /\ nRstEdge = 0
    /\ exitStatus = NoStatus

Init ==
    /\ \E argv \in Argvs : Start("main", 0, TestOf(argv), "new")
    /\ clk = 0 /\ rst = 0 /\ en = 0
    /\ prevClk = 0
    /\ count \in PowerOnCounts

DoCall ==
    /\ Running /\ Cur.op = "call"
    /\ log' = IF CurFn \in { "", "main" }
              THEN << Entry(count) >>
              ELSE Executed(count)
    /\ stack' = Append(stack, [ fn |-> Cur.sig, at |-> Len(log') ])
    /\ nTick' = IF Cur.sig = "tick" THEN nTick + 1 ELSE nTick
    /\ nReset' = IF Cur.sig = "reset" THEN nReset + 1 ELSE nReset
    /\ pc' = pc + 1
    /\ UNCHANGED << entry, test, clk, rst, en, count, prevClk, main_time,
                    tfp, nDump, snap, prevSnap, nEval, nDiag, nClose, nFinal,
                    exitStatus, nRise, nRstEdge >>

DoRet ==
    /\ Running /\ Cur.op = "ret"
    /\ stack # << >>
    /\ log' = Append(log, [ op |-> "ret", sig |-> Cur.sig,
                            val |-> stack[Len(stack)].at, cnt |-> count ])
    /\ stack' = SubSeq(stack, 1, Len(stack) - 1)
    /\ pc' = pc + 1
    /\ UNCHANGED << entry, test, clk, rst, en, count, prevClk, main_time,
                    tfp, nDump, snap, prevSnap, nEval, nTick, nReset, nDiag,
                    nClose, nFinal, exitStatus, nRise, nRstEdge >>

DoSet ==
    /\ Running /\ Cur.op = "set"
    /\ clk' = IF Cur.sig = "clk" THEN Cur.val ELSE clk
    /\ rst' = IF Cur.sig = "rst" THEN Cur.val ELSE rst
    /\ en' = IF Cur.sig = "en" THEN Cur.val ELSE en
    /\ nRstEdge' = IF rst' # rst THEN nRstEdge + 1 ELSE nRstEdge
    /\ log' = Executed(count)
    /\ pc' = pc + 1
    /\ UNCHANGED << entry, test, count, prevClk, main_time, tfp, nDump, snap,
                    prevSnap, stack, nEval, nTick, nReset, nDiag, nClose,
                    nFinal, exitStatus, nRise >>

DoEval ==
    /\ Running /\ Cur.op = "eval"
    /\ count' = NextCount(count, prevClk, clk, rst, en)
    /\ prevClk' = clk
    /\ nEval' = nEval + 1
    /\ nRise' = IF RisingEdge(prevClk, clk) THEN nRise + 1 ELSE nRise
    /\ log' = Executed(count')
    /\ pc' = pc + 1
    /\ UNCHANGED << entry, test, clk, rst, en, main_time, tfp, nDump, snap,
                    prevSnap, stack, nTick, nReset, nDiag, nClose, nFinal,
                    exitStatus, nRstEdge >>

\* if (tfp) tfp->dump(main_time++): with no recorder nothing is dumped and
\* main_time is not incremented.  The unguarded dump of main (line 38) always
\* has a recorder.
DoDump ==
    /\ Running /\ Cur.op = "dump"
    /\ IF Cur = DumpAlways \/ tfp # "null"
       THEN /\ snap' = [ time |-> main_time, clk |-> clk, rst |-> rst,
                         en |-> en, count |-> count, fn |-> CurFn,
                         tickNo |-> nTick ]
            /\ prevSnap' = snap
            /\ nDump' = nDump + 1
            /\ main_time' = PostIncrement(main_time)
            /\ log' = Executed(count)
       ELSE UNCHANGED << snap, prevSnap, nDump, main_time, log >>
    /\ pc' = pc + 1
    /\ UNCHANGED << entry, test, clk, rst, en, count, prevClk, tfp, stack,
                    nEval, nTick, nReset, nDiag, nClose, nFinal, exitStatus,
                    nRise, nRstEdge >>

\* tfp->open(path): the result is not looked at; the file may fail to open
DoOpen ==
    /\ Running /\ Cur.op = "open"
    /\ \E ok \in BOOLEAN : tfp' = IF ok THEN "open" ELSE "failed"
    /\ log' = Executed(count)
    /\ pc' = pc + 1
    /\ UNCHANGED << entry, test, clk, rst, en, count, prevClk, main_time,
                    nDump, snap, prevSnap, stack, nEval, nTick, nReset,
                    nDiag, nClose, nFinal, exitStatus, nRise, nRstEdge >>

DoDiag ==
    /\ Running /\ Cur.op = "diag"
    /\ nDiag' = nDiag + 1
    /\ log' = Executed(count)
    /\ pc' = pc + 1
    /\ UNCHANGED << entry, test, clk, rst, en, count, prevClk, main_time,
                    tfp, nDump, snap, prevSnap, stack, nEval, nTick, nReset,
                    nClose, nFinal, exitStatus, nRise, nRstEdge >>

DoClose ==
    /\ Running /\ Cur.op = "close"
    /\ tfp' = IF tfp = "open" THEN "closed" ELSE tfp
    /\ nClose' = nClose + 1
    /\ log' = Executed(count)
    /\ pc' = pc + 1
    /\ UNCHANGED << entry, test, clk, rst, en, count, prevClk, main_time,
                    nDump, snap, prevSnap, stack, nEval, nTick, nReset,
                    nDiag, nFinal, exitStatus, nRise, nRstEdge >>

DoFinal ==
    /\ Running /\ Cur.op = "final"
    /\ nFinal' = nFinal + 1
    /\ log' = Executed(count)
    /\ pc' = pc + 1
    /\ UNCHANGED << entry, test, clk, rst, en, count, prevClk, main_time,
                    tfp, nDump, snap, prevSnap, stack, nEval, nTick, nReset,
                    nDiag, nClose, exitStatus, nRise, nRstEdge >>

DoExit ==
    /\ Running /\ Cur.op = "exit"
    /\ exitStatus' = Cur.val
    /\ stack' = << >>
    /\ log' = Executed(count)
    /\ pc' = Len(Program) + 1
    /\ UNCHANGED << entry, test, clk, rst, en, count, prevClk, main_time,
                    tfp, nDump, snap, prevSnap, nEval, nTick, nReset, nDiag,
                    nClose, nFinal, nRise, nRstEdge >>

Next ==
    \/ DoCall \/ DoRet \/ DoSet \/ DoEval \/ DoDump
    \/ DoOpen \/ DoDiag \/ DoClose \/ DoFinal \/ DoExit

Spec == Init /\ [][Next]_vars

\* main is sequential code: a statement that can run does run
SpecLive == Init /\ [][Next]_vars /\ WF_vars(Next)

Done == exitStatus # NoStatus

\* 1 Initialize (up to the baseline dump), 2 the scenario script,
\* 3 Finalize (from close on), 4 returned
Stage ==
    IF Done THEN 4
    ELSE IF nClose >= 1 THEN 3
    ELSE IF nDump >= 1 THEN 2
    ELSE 1

-----------------------------------------------------------------------------
(* reset exercised on its own: any `cycles` in 0..MaxCycles, from any count *)
(* and from either clock level, with rst low as at every call in main.      *)

InitReset ==
    /\ \E c \in 0 .. MaxCycles : Start("reset", c, "", "new")
    /\ clk \in { 0, 1 } /\ prevClk = clk
    /\ rst = 0
    /\ en \in { 0, 1 }
    /\ count \in 0 .. CountModulus - 1

NextReset == DoCall \/ DoRet \/ DoSet \/ DoEval \/ DoDump

SpecReset == InitReset /\ [][NextReset]_vars

-----------------------------------------------------------------------------
(* tick and reset called without a recorder (tfp == nullptr).  main never    *)
(* does this: it always passes the recorder it created on line 33.           *)

InitNoRecorder ==
    /\ \/ Start("tick", 0, "", "null")
       \/ \E c \in 0 .. MaxCycles : Start("reset", c, "", "null")
    /\ clk \in { 0, 1 } /\ prevClk = clk
    /\ rst = 0
    /\ en \in { 0, 1 }
    /\ count \in 0 .. CountModulus - 1

SpecNoRecorder == InitNoRecorder /\ [][NextReset]_vars

\* without a recorder nothing is dumped and the time stands still, while the
\* DUT is evaluated as usual: twice per tick, and twice more per reset
NoRecorderNoDump ==
    /\ nDump = 0 /\ main_time = 0
    /\ \A i \in 1 .. Len(log) : log[i].op # "dump"
    /\ ~Running => nEval = 2 * nTick + 2 * nReset

-----------------------------------------------------------------------------
(* Observations on the history *)

Last == log[Len(log)]

\* the statement just executed is the return of fn
Returned(fn) == log # << >> /\ Last.op = "ret" /\ Last.sig = fn

\* the statements of the call that has just returned, entry and return included
LastCall == SubSeq(log, Last.val, Len(log))

Ops(seq) == [ i \in 1 .. Len(seq) |-> seq[i].op ]

\* the latest snapshot is the high-phase snapshot of the n-th call of tick
IsHigh(n) == snap.fn = "tick" /\ snap.tickNo = n /\ snap.clk = 1

\* s was taken while rst is driven with en high
UnderReset(s) == s.rst = 1 /\ s.en = 1

-----------------------------------------------------------------------------
(* Properties *)

\* C1: when a built-in scenario has completed, the number of dump calls is
\* 2 x (calls of tick) + 2 x (calls of reset) + 1.
C1_SnapshotCount ==
    (Done /\ test \in BuiltIn) =>
        nDump = 2 * nTick + 2 * nReset + 1

C1_Witness ==
    /\ Done /\ test = "reset_behavior"
    /\ nReset = 2 /\ nTick = 13 /\ nDump = 31

\* C2: for every scenario name the k-th dump is made at time k-1, and
\* main_time never goes down and moves by exactly one at each dump.
C2_TimeSequence ==
    /\ [](/\ nDump >= 1 => snap.time = nDump - 1
          /\ nDump >= 2 => prevSnap.time = nDump - 2
          /\ main_time = nDump)
    /\ [][/\ main_time' >= main_time
          /\ nDump' > nDump => main_time' = main_time + 1]_vars

C2_Witness ==
    /\ Done /\ test = "mid_stream_reset"
    /\ nDump = 39 /\ snap.time = 38 /\ prevSnap.time = 37 /\ main_time = 39

\* C3 (as stated): after any reset(cycles), cycles >= 0, the counter is 0.
C3_AnyCyclesClears ==
    Returned("reset") => count = 0

\* C3: after reset(cycles) with cycles >= 1 the counter is 0 whatever it was
\* before; after reset(0) no rising edge was evaluated and it is unchanged.
C3_ResetClears ==
    Returned("reset") =>
        /\ LastCall[1].val >= 1 => count = 0
        /\ LastCall[1].val = 0 => count = LastCall[1].cnt

C3_Witness ==
    /\ Returned("reset")
    /\ LastCall[1].val >= 1 /\ LastCall[1].cnt # 0 /\ count = 0

\* C4 (as stated): in rst_over_en_priority every snapshot taken with rst = 1
\* while en = 1 shows the counter at 0.
C4_EverySnapshotZero ==
    (test = "rst_over_en_priority" /\ UnderReset(snap)) => snap.count = 0

\* C4: in rst_over_en_priority every snapshot taken with rst = 1 while en = 1
\* shows the counter at 0, except the first one (the low phase of the first
\* of the 4 ticks, before any rising edge under reset), which still shows 5.
C4_ZeroAfterFirstEdge ==
    (test = "rst_over_en_priority" /\ UnderReset(snap)) =>
        IF UnderReset(prevSnap)
        THEN snap.count = 0
        ELSE snap.count = 5 /\ snap.clk = 0

C4_Witness ==
    /\ test = "rst_over_en_priority"
    /\ UnderReset(snap) /\ UnderReset(prevSnap)
    /\ snap.tickNo = 1 + 5 + 4 /\ snap.clk = 1 /\ snap.count = 0

\* C5: a name that is none of the six built-in names gives one snapshot, one
\* evaluation, one diagnostic, no tick, no reset, no assignment to an input
\* after the baseline, and exit status 0.
C5_UnknownScenario ==
    test \notin BuiltIn =>
        /\ nTick = 0 /\ nReset = 0
        /\ nDump <= 1 /\ nEval <= 1 /\ nDiag <= 1
        /\ \A i, j \in 1 .. Len(log) :
              (log[j].op = "dump" /\ j < i) => log[i].op # "set"
        /\ nDump = 1 => (clk = 0 /\ rst = 0 /\ en = 0)
        /\ Done => (nDump = 1 /\ nEval = 1 /\ nDiag = 1 /\ exitStatus = 0)

C5_Witness ==
    /\ Done /\ test = "Basic_Counting"
    /\ nDiag = 1 /\ nDump = 1 /\ exitStatus = 0

\* C6: when the trace file cannot be opened, nothing is evaluated or dumped
\* afterwards and main returns a non-zero status.
C6_OpenFailureFatal ==
    tfp = "failed" =>
        /\ nEval = 0 /\ nDump = 0
        /\ Done => exitStatus # 0

\* C7: on every run the recorder is closed once and the DUT finalized once,
\* close first, both before main returns, and nothing is evaluated or dumped
\* once the recorder is closed.
C7_Finalization ==
    /\ [](/\ nClose <= 1 /\ nFinal <= 1
          /\ nFinal = 1 => nClose = 1
          /\ Done => (nClose = 1 /\ nFinal = 1))
    /\ [][nClose >= 1 => (nEval' = nEval /\ nDump' = nDump)]_vars

C7_Witness ==
    /\ Done /\ test = "wraparound "
    /\ nClose = 1 /\ nFinal = 1 /\ nEval = 1

\* C8: in wraparound the counter is 254 after the 254th enabled tick, 255
\* after the next, 0 after the one after that, and then 1.
C8_Wraparound ==
    test = "wraparound" =>
        /\ IsHigh(1 + 254) => snap.count = 254
        /\ IsHigh(1 + 255) => snap.count = 255
        /\ IsHigh(1 + 256) => snap.count = 0
        /\ IsHigh(1 + 257) => snap.count = 1

C8_Witness ==
    /\ test = "wraparound"
    /\ IsHigh(1 + 256) /\ snap.count = 0 /\ prevSnap.count = 255

\* C9: in basic_counting the high-phase snapshot of the 20th enabled tick
\* shows the counter at 20 modulo 2^CounterWidth.
C9_BasicCounting ==
    (test = "basic_counting" /\ IsHigh(1 + 20)) =>
        snap.count = 20 % CountModulus

C9_Witness ==
    /\ test = "basic_counting"
    /\ IsHigh(1 + 20) /\ snap.count = 20 /\ prevSnap.count = 19

\* C10: every call of tick is exactly: clk = 0, evaluate, dump, clk = 1,
\* evaluate, dump; its two snapshots are at consecutive times, the first with
\* clk = 0 and the second with clk = 1, and it assigns neither rst nor en.
C10_TickShape ==
    Returned("tick") =>
        LET c == LastCall
        IN  /\ Ops(c) = << "call", "set", "eval", "dump",
                           "set", "eval", "dump", "ret" >>
            /\ c[2].sig = "clk" /\ c[2].val = 0
            /\ c[5].sig = "clk" /\ c[5].val = 1
            /\ prevSnap.clk = 0 /\ snap.clk = 1
            /\ snap.time = prevSnap.time + 1
            /\ main_time = snap.time + 1
            /\ prevSnap.rst = rst /\ snap.rst = rst
            /\ prevSnap.en = en /\ snap.en = en

C10_Witness ==
    /\ Returned("tick") /\ test = "hold_when_disabled"
    /\ nTick = 7 /\ snap.clk = 1 /\ prevSnap.clk = 0

\* what kind of statement e is: its operation and the signal or function
Kind(e) == << e.op, e.sig >>

IsDump == { << "dump", "" >> }
IsEval == { << "eval", "" >> }
IsTickCall == { << "call", "tick" >> }
IsSetRst == { << "set", "rst" >> }
IsSetClk == { << "set", "clk" >> }
IsSetInput == { << "set", "rst" >>, << "set", "en" >> }

\* positions in seq of the statements of the given kinds
Where(seq, kinds) == { i \in 1 .. Len(seq) : Kind(seq[i]) \in kinds }

\* C11: every reset(cycles) asserts rst and records it before any clk change,
\* runs exactly `cycles` ticks with rst = 1, deasserts rst and records it only
\* after them, and makes 2*cycles + 2 dumps (two when cycles = 0).
C11_ResetShape ==
    Returned("reset") =>
        LET c == LastCall
            n == Len(c)
            cycles == c[1].val
        IN  /\ Kind(c[2]) \in IsSetRst /\ c[2].val = 1
            /\ Kind(c[3]) \in IsEval /\ Kind(c[4]) \in IsDump
            /\ Cardinality(Where(c, IsTickCall)) = cycles
            /\ Where(c, IsSetRst) = { 2, n - 3 }
            /\ c[n - 3].val = 0
            /\ Kind(c[n - 2]) \in IsEval /\ Kind(c[n - 1]) \in IsDump
            /\ \A i \in Where(c, IsSetClk) \cup Where(c, IsTickCall) :
                  4 < i /\ i < n - 3
            /\ Cardinality(Where(c, IsDump)) = 2 * cycles + 2
            /\ Cardinality(Where(c, IsEval)) = 2 * cycles + 2
            /\ snap.fn = "reset" /\ snap.rst = 0 /\ rst = 0

C11_Witness ==
    /\ Returned("reset") /\ LastCall[1].val = 2
    /\ nDump = 6 /\ nTick = 2 /\ snap.rst = 0 /\ prevSnap.rst = 1

\* C12: whatever the scenario name, the first dump is at time 0 with clk = 0,
\* rst = 0, en = 0, after exactly one evaluation and before any scenario step.
C12_Baseline ==
    /\ nDump = 0 => (nTick = 0 /\ nReset = 0 /\ nDiag = 0 /\ nEval <= 1)
    /\ (nDump = 1 /\ Last.op = "dump") =>
          (nEval = 1 /\ nTick = 0 /\ nReset = 0 /\ nDiag = 0 /\ nRstEdge = 0)
    /\ LET first == IF nDump = 1 THEN snap ELSE prevSnap
       IN  nDump \in { 1, 2 } =>
              /\ first.time = 0
              /\ first.clk = 0 /\ first.rst = 0 /\ first.en = 0
              /\ first.fn = "main" /\ first.tickNo = 0

C12_Witness ==
    /\ nDump = 1 /\ Last.op = "dump" /\ test = "reset_behavior"
    /\ snap.time = 0 /\ snap.clk = 0 /\ snap.rst = 0 /\ snap.en = 0
    /\ nEval = 1

\* scenarios that assign rst directly, once to 1 and once to 0
DirectRstEdges ==
    IF test \in { "rst_over_en_priority", "mid_stream_reset" } THEN 2 ELSE 0

\* C13 (as stated): at the end of a built-in scenario the time is one for the
\* baseline, two per tick and one per change of rst, direct assignments
\* included.
C13_EveryRstEdgeTimed ==
    (Done /\ test \in BuiltIn) =>
        main_time = 2 * nTick + nRstEdge + 1

\* C13: at the end of a built-in scenario the time is one for the baseline,
\* two per tick and one per change of rst made by reset; the two changes of
\* rst assigned directly in rst_over_en_priority and mid_stream_reset get no
\* time increment and no snapshot of their own.
C13_ResetEdgesTimed ==
    (Done /\ test \in BuiltIn) =>
        /\ nRstEdge = 2 * nReset + DirectRstEdges
        /\ main_time = 2 * nTick + (nRstEdge - DirectRstEdges) + 1
        /\ nDump = main_time

C13_Witness ==
    /\ Done /\ test = "mid_stream_reset"
    /\ nRstEdge = 4 /\ nReset = 1 /\ nTick = 18 /\ main_time = 39

\* C14: open is called before the first dump, no dump follows close, and
\* dumps pair with evaluations: each dump comes right after one evaluation,
\* with no statement (so no input change) in between, and brings the number
\* of dumps level with the number of evaluations.
C14_RecorderProtocol ==
    /\ [](/\ nEval - nDump \in { 0, 1 }
          /\ nDump >= 1 => tfp # "new"
          /\ (log # << >> /\ Last.op = "dump") => nDump = nEval)
    /\ [][nDump' > nDump =>
            /\ tfp # "new" /\ nClose = 0
            /\ Last.op = "eval"
            /\ nEval = nDump + 1 /\ nDump' = nEval']_vars

C14_Witness ==
    /\ Done /\ test = "hold_when_disabled"
    /\ tfp = "closed" /\ nDump = 45 /\ nEval = 45

\* calls of tick and of reset made by each script, as the scripts list them
ScriptTicks ==
    [ basic_counting |-> 1 + 20 + 5,
      hold_when_disabled |-> 1 + 5 + 10 + 5,
      reset_behavior |-> 2 + 5 + 1 + 5,
      rst_over_en_priority |-> 1 + 5 + 4 + 6,
      wraparound |-> 1 + 254 + 4 + 4,
      mid_stream_reset |-> 1 + 8 + 1 + 8 ]

ScriptResets ==
    [ basic_counting |-> 1, hold_when_disabled |-> 1, reset_behavior |-> 2,
      rst_over_en_priority |-> 1, wraparound |-> 1, mid_stream_reset |-> 1 ]

\* C15: every run goes forward through Initialize, the script and Finalize,
\* never back, runs exactly the body of the named scenario (none and one
\* diagnostic for an unknown name), and eventually returns 0.
C15_LinearRun ==
    /\ <>(Done /\ exitStatus = 0)
    /\ [][Stage' >= Stage /\ pc' > pc]_vars
    /\ [](/\ Stage = 1 => (nTick = 0 /\ nReset = 0 /\ nDiag = 0)
          /\ Stage >= 3 =>
                IF test \in BuiltIn
                THEN /\ nDiag = 0
                     /\ nTick = ScriptTicks[test]
                     /\ nReset = ScriptResets[test]
                ELSE nDiag = 1 /\ nTick = 0 /\ nReset = 0)

C15_Witness ==
    /\ Done /\ exitStatus = 0 /\ Stage = 4
    /\ test = "rst_over_en_priority" /\ nTick = 16 /\ nDiag = 0

\* C16: the DUT sees exactly one rising edge of clk per call of tick, in its
\* high-phase evaluation, and none in any other evaluation.
C16_OneRisePerTick ==
    /\ [](/\ nTick - nRise \in { 0, 1 }
          /\ CurFn # "tick" => nRise = nTick)
    /\ [][nRise' > nRise =>
            (CurFn = "tick" /\ clk = 1 /\ nRise' = nTick)]_vars

C16_Witness ==
    /\ Done /\ test = "reset_behavior"
    /\ nRise = 13 /\ nTick = 13 /\ nEval = 31

\* C17: when a rising edge is evaluated, the evaluation before it was made
\* with clk = 0 and no assignment to rst or en has been made since.
C17_InputsSettledBeforeEdge ==
    [][nRise' > nRise =>
         /\ prevClk = 0
         /\ \E i \in Where(log, IsEval) :
               \A j \in Where(log, IsSetInput) : j < i]_vars

C17_Witness ==
    /\ test = "basic_counting" /\ nTick = 2 /\ nRise = 2
    /\ Last.op = "eval" /\ clk = 1 /\ en = 1 /\ count = 1

\* the latest snapshot was taken by the n-th call of tick
InTick(n) == snap.fn = "tick" /\ snap.tickNo = n

\* C18: in hold_when_disabled the counter is 5 after the first 5 enabled
\* ticks, 5 on every snapshot of the 10 ticks with en = 0, and 10 at the end.
C18_HoldWhenDisabled ==
    test = "hold_when_disabled" =>
        /\ IsHigh(1 + 5) => snap.count = 5
        /\ \A n \in 1 + 5 + 1 .. 1 + 5 + 10 :
              InTick(n) => (snap.en = 0 /\ snap.count = 5)
        /\ Done => count = 10

C18_Witness ==
    /\ test = "hold_when_disabled"
    /\ IsHigh(1 + 5 + 10) /\ snap.en = 0 /\ snap.count = 5

\* C19: in mid_stream_reset the counter is 8 after the first 8 enabled ticks,
\* 0 at the high phase of the tick run with rst = 1 and 8 again at the end;
\* every built-in scenario ends with rst = 0.
C19_MidStreamReset ==
    /\ test = "mid_stream_reset" =>
          /\ IsHigh(1 + 8) => snap.count = 8
          /\ IsHigh(1 + 8 + 1) => (snap.rst = 1 /\ snap.count = 0)
          /\ Done => count = 8
    /\ (Done /\ test \in BuiltIn) => rst = 0

C19_Witness ==
    /\ Done /\ test = "mid_stream_reset"
    /\ count = 8 /\ rst = 0 /\ nRstEdge = 4

====
